---- MODULE Spec2Model ----
(***************************************************************************)
(* A model of the ROS1 bag (v2.0) writer of src/writer.js: the primitive   *)
(* serializers, the Header record, the WriteChunk accumulator and the      *)
(* Writer (open / addConnection / write / _writeChunk / close).            *)
(*                                                                         *)
(* Buffers are kept structured: a numeric value is its little-endian byte  *)
(* tuple, a string is kept as the string (its bytes), and every buffer has *)
(* the byte length the code gives it, so that positions (filePos,          *)
(* chunk.pos, index offsets) are the byte positions of the code.           *)
(***************************************************************************)
EXTENDS Integers, Sequences, FiniteSets, TLC

(***************************************************************************)
(* Bounds of the model.                                                    *)
(***************************************************************************)
\* Spec: at most this many connections, messages, successful open() calls
MaxConns == 2
MaxMsgs == 2
MaxOpens == 2
\* SpecConn and SpecFile: at most this many connections and messages
MaxConnsC == 2
MaxMsgsC == 1
\* SpecChunk: at most this many connections and messages
MaxConnsK == 2
MaxMsgsK == 2

(***************************************************************************)
(* JavaScript values that reach the writer as optional arguments.          *)
(***************************************************************************)
Null == [t |-> "null", s |-> "", n |-> 0]
Undefined == [t |-> "undefined", s |-> "", n |-> 0]
Str(s) == [t |-> "str", s |-> s, n |-> 0]
Num(n) == [t |-> "num", s |-> "", n |-> n]
BigInt(n) == [t |-> "bigint", s |-> "", n |-> n]

\* String(value)
String(v) ==
  CASE v.t = "str" -> v.s
    [] v.t = "num" -> ToString(v.n)
    [] v.t = "null" -> "null"
    [] OTHER -> "undefined"

\* value ?? null
OrNull(v) == IF v.t = "undefined" THEN Null ELSE v

(***************************************************************************)
(* Primitive serializers.  A serialized number is the tuple of its bytes,  *)
(* least significant first.                                                *)
(***************************************************************************)
RECURSIVE Shr8(_, _)
Shr8(val, k) == IF k = 0 THEN val ELSE Shr8(val \div 256, k - 1)

LEBytes(val, n) == [k \in 1..n |-> Shr8(val, k - 1) % 256]

serializeUInt8(val) == LEBytes(val, 1)

serializeUInt32(val) == LEBytes(val, 4)

serializeUInt64(val) == LEBytes(val, 8)

BILLION == 1000000000

serializeTime(ns) ==
  LET sec == ns \div BILLION
      nsec == ns % BILLION
  IN  serializeUInt32(sec) \o serializeUInt32(nsec)

\* the number a little-endian byte tuple stands for (used to read buffers back)
RECURSIVE LEValue(_)
LEValue(b) == IF b = <<>> THEN 0 ELSE b[1] + 256 * LEValue(Tail(b))

(***************************************************************************)
(* Header: an insertion-ordered map key -> value blob.  A blob is          *)
(* [t |-> "bytes", v |-> byte tuple] or [t |-> "str", v |-> string].       *)
(***************************************************************************)
Bytes(b) == [t |-> "bytes", v |-> b]
Text(s) == [t |-> "str", v |-> s]
BlobLen(b) == Len(b.v)

NewHeader == <<>>

\* a map that moves a key that is set again to the end
MapSet_MoveLast(fields, name, blob) ==
  Append(SelectSeq(fields, LAMBDA f : f.key # name), [key |-> name, val |-> blob])

\* Map.prototype.set: an existing key keeps its place, a new key goes last
MapSet(fields, name, blob) ==
  IF \E i \in 1..Len(fields) : fields[i].key = name
  THEN [i \in 1..Len(fields) |->
          IF fields[i].key = name THEN [key |-> name, val |-> blob] ELSE fields[i]]
  ELSE Append(fields, [key |-> name, val |-> blob])

setUint32(h, name, value) == MapSet(h, name, Bytes(serializeUInt32(value)))
setUint64(h, name, value) == MapSet(h, name, Bytes(serializeUInt64(value)))
setString(h, name, value) == MapSet(h, name, Text(String(value)))
setTime(h, name, value) == MapSet(h, name, Bytes(serializeTime(value)))

NoOpcode == -1

\* key + '=' + value
KeqvLen(f) == Len(f.key) + 1 + BlobLen(f.val)

RECURSIVE SumKeqv(_)
SumKeqv(fields) ==
  IF fields = <<>> THEN 0 ELSE 4 + KeqvLen(Head(fields)) + SumKeqv(Tail(fields))

\* dataLength of Header.serialize
DataLength(fields, opcode) ==
  (IF opcode # NoOpcode THEN 4 + (3 + Len(serializeUInt8(opcode))) ELSE 0)
  + SumKeqv(fields)

\* Header.serialize(opcode): the buffer, with its leading length field
serialize(h, opcode) ==
  [kind |-> "header",
   dlen |-> serializeUInt32(DataLength(h, opcode)),
   op |-> IF opcode # NoOpcode THEN serializeUInt8(opcode) ELSE <<>>,
   fields |-> h]

(***************************************************************************)
(* RecordType                                                              *)
(***************************************************************************)
MSGDATA == 2
BAGHEADER == 3
IDXDATA == 4
CHUNK == 5
CHUNK_INFO == 6
CONNECTION == 7

(***************************************************************************)
(* Other buffers the writer builds, and the byte length of a buffer.       *)
(***************************************************************************)
MagicBuf == [kind |-> "magic", text |-> "#ROSBAG V2.0\n"]
U32Buf(val) == [kind |-> "u32", b |-> serializeUInt32(val)]
\* Buffer.concat([serializeUInt32(padsize), Buffer.alloc(padsize, 0x20)])
PadBuf(padsize) == [kind |-> "pad", b |-> serializeUInt32(padsize), fill |-> padsize]
DataBuf(data) == [kind |-> "data", b |-> data]
\* Buffer.concat([serializeTime(time), serializeUInt32(offset)])
EntryBuf(time, offset) ==
  [kind |-> "idxentry", b |-> serializeTime(time) \o serializeUInt32(offset)]

RECURSIVE BufLen(_)
RECURSIVE SumLen(_)
SumLen(bufs) == IF bufs = <<>> THEN 0 ELSE BufLen(Head(bufs)) + SumLen(Tail(bufs))

BufLen(buf) ==
  CASE buf.kind = "magic" -> Len(buf.text)
    [] buf.kind = "header" ->
         Len(buf.dlen)
         + (IF buf.op # <<>> THEN 4 + 3 + Len(buf.op) ELSE 0)
         + SumKeqv(buf.fields)
    [] buf.kind = "pad" -> Len(buf.b) + buf.fill
    [] buf.kind = "body" -> SumLen(buf.parts)
    [] OTHER -> Len(buf.b)

(***************************************************************************)
(* Predefined schemas of addConnection.                                    *)
(***************************************************************************)
ImageMsgdef ==
    "# This message contains an uncompressed image\n" \o
    "# (0, 0) is at top-left corner of image\n" \o
    "#\n" \o
    "\n" \o
    "Header header        # Header timestamp should be acquisition time of image\n" \o
    "                     # Header frame_id should be optical frame of camera\n" \o
    "                     # origin of frame should be optical center of camera\n" \o
    "                     # +x should point to the right in the image\n" \o
    "                     # +y should point down in the image\n" \o
    "                     # +z should point into to plane of the image\n" \o
    "                     # If the frame_id here and the frame_id of the CameraInfo\n" \o
    "                     # message associated with the image conflict\n" \o
    "                     # the behavior is undefined\n" \o
    "\n" \o
    "uint32 height         # image height, that is, number of rows\n" \o
    "uint32 width          # image width, that is, number of columns\n" \o
    "\n" \o
    "# The legal values for encoding are in file src/image_encodings.cpp\n" \o
    "# If you want to standardize a new string format, join\n" \o
    "# ros-users@lists.sourceforge.net and send an email proposing a new encoding.\n" \o
    "\n" \o
    "string encoding       # Encoding of pixels -- channel meaning, ordering, size\n" \o
    "                      # taken from the list of strings in include/sensor_msgs/image_encodings.h\n" \o
    "\n" \o
    "uint8 is_bigendian    # is this data bigendian?\n" \o
    "uint32 step           # Full row length in bytes\n" \o
    "uint8[] data          # actual matrix data, size is (step * rows)\n" \o
    "\n" \o
    "================================================================================\n" \o
    "MSG: std_msgs/Header\n" \o
    "# Standard metadata for higher-level stamped data types.\n" \o
    "# This is generally used to communicate timestamped data \n" \o
    "# in a particular coordinate frame.\n" \o
    "# \n" \o
    "# sequence ID: consecutively increasing ID \n" \o
    "uint32 seq\n" \o
    "#Two-integer timestamp that is expressed as:\n" \o
    "#   * stamp.sec: seconds (stamp_secs) since epoch (in Python the variable is called 'secs')\n" \o
    "#   * stamp.nsec: nanoseconds since stamp_secs (in Python the variable is called 'nsecs')\n" \o
    "# time-handling sugar is provided by the client library\n" \o
    "time stamp\n" \o
    "#Frame this data is associated with\n" \o
    "string frame_id\n"

ImuMsgdef ==
    "# This is a message to hold data from an IMU (Inertial Measurement Unit)\n" \o
    "#\n" \o
    "# Accelerations should be in m/s^2 (not in g's), and rotational velocity should be in rad/sec\n" \o
    "#\n" \o
    "# If the covariance of the measurement is known, it should be filled in (if all you know is the \n" \o
    "# variance of each measurement, e.g. from the datasheet, just put those along the diagonal)\n" \o
    "# A covariance matrix of all zeros will be interpreted as \"covariance unknown\", and to use the\n" \o
    "# data a covariance will have to be assumed or gotten from some other source\n" \o
    "#\n" \o
    "# If you have no estimate for one of the data elements (e.g. your IMU doesn't produce an orientation \n" \o
    "# estimate), please set element 0 of the associated covariance matrix to -1\n" \o
    "# If you are interpreting this message, please check for a value of -1 in the first element of each \n" \o
    "# covariance matrix, and disregard the associated estimate.\n" \o
    "\n" \o
    "Header header\n" \o
    "\n" \o
    "geometry_msgs/Quaternion orientation\n" \o
    "float64[9] orientation_covariance # Row major about x, y, z axes\n" \o
    "\n" \o
    "geometry_msgs/Vector3 angular_velocity\n" \o
    "float64[9] angular_velocity_covariance # Row major about x, y, z axes\n" \o
    "\n" \o
    "geometry_msgs/Vector3 linear_acceleration\n" \o
    "float64[9] linear_acceleration_covariance # Row major x, y z \n" \o
    "\n" \o
    "================================================================================\n" \o
    "MSG: std_msgs/Header\n" \o
    "# Standard metadata for higher-level stamped data types.\n" \o
    "# This is generally used to communicate timestamped data \n" \o
    "# in a particular coordinate frame.\n" \o
    "# \n" \o
    "# sequence ID: consecutively increasing ID \n" \o
    "uint32 seq\n" \o
    "#Two-integer timestamp that is expressed as:\n" \o
    "#   * stamp.sec: seconds (stamp_secs) since epoch (in Python the variable is called 'secs')\n" \o
    "#   * stamp.nsec: nanoseconds since stamp_secs (in Python the variable is called 'nsecs')\n" \o
    "# time-handling sugar is provided by the client library\n" \o
    "time stamp\n" \o
    "#Frame this data is associated with\n" \o
    "string frame_id\n" \o
    "\n" \o
    "================================================================================\n" \o
    "MSG: geometry_msgs/Quaternion\n" \o
    "# This represents an orientation in free space in quaternion form.\n" \o
    "\n" \o
    "float64 x\n" \o
    "float64 y\n" \o
    "float64 z\n" \o
    "float64 w\n" \o
    "\n" \o
    "================================================================================\n" \o
    "MSG: geometry_msgs/Vector3\n" \o
    "# This represents a vector in free space. \n" \o
    "# It is only meant to represent a direction. Therefore, it does not\n" \o
    "# make sense to apply a translation to it (e.g., when applying a \n" \o
    "# generic rigid transformation to a Vector3, tf2 will only apply the\n" \o
    "# rotation). If you want your data to be translatable too, use the\n" \o
    "# geometry_msgs/Point message instead.\n" \o
    "\n" \o
    "float64 x\n" \o
    "float64 y\n" \o
    "float64 z\n"

PREDEFINED_BASE ==
  [k \in {"std_msgs/msg/Int8", "sensor_msgs/msg/CompressedImage",
          "sensor_msgs/msg/Image", "sensor_msgs/msg/Imu"} |->
     CASE k = "std_msgs/msg/Int8" ->
            [msgdef |-> Str("int8 data\n"),
             md5sum |-> Str("27ffa0c9c4b8fb8492252bcad9e5c57b")]
       [] k = "sensor_msgs/msg/CompressedImage" ->
            [msgdef |-> Str("std_msgs/Header header\nstring format\nuint8[] data\n"),
             md5sum |-> Str("8f7a12909da2c9d3332d540a0977563f")]
       [] k = "sensor_msgs/msg/Image" ->
            [msgdef |-> Str(ImageMsgdef),
             md5sum |-> Str("060021388200f6f0f447d0fcd9c64743")]
       [] OTHER ->
            [msgdef |-> Str(ImuMsgdef),
             md5sum |-> Str("6a62c6daae103f4ff57a132d6f95cec2")]]

\* full.replace('/msg/', '/') on the keys of PREDEFINED_BASE
Alias(full) ==
  CASE full = "std_msgs/msg/Int8" -> "std_msgs/Int8"
    [] full = "sensor_msgs/msg/CompressedImage" -> "sensor_msgs/CompressedImage"
    [] full = "sensor_msgs/msg/Image" -> "sensor_msgs/Image"
    [] full = "sensor_msgs/msg/Imu" -> "sensor_msgs/Imu"
    [] OTHER -> full

PREDEFINED ==
  [k \in (DOMAIN PREDEFINED_BASE) \cup {Alias(f) : f \in DOMAIN PREDEFINED_BASE} |->
     IF k \in DOMAIN PREDEFINED_BASE
     THEN PREDEFINED_BASE[k]
     ELSE PREDEFINED_BASE[CHOOSE f \in DOMAIN PREDEFINED_BASE : Alias(f) = k]]

\* PREDEFINED is a plain object: a key it does not own is looked up on
\* Object.prototype, whose members are truthy and have no msgdef / md5sum
ObjectPrototypeKeys ==
  {"constructor", "toString", "valueOf", "hasOwnProperty", "isPrototypeOf",
   "propertyIsEnumerable", "toLocaleString", "__proto__"}

\* PREDEFINED[msgtype]
PredefLookup(msgtype) ==
  IF msgtype \in DOMAIN PREDEFINED
  THEN [truthy |-> TRUE, msgdef |-> PREDEFINED[msgtype].msgdef,
        md5sum |-> PREDEFINED[msgtype].md5sum]
  ELSE IF msgtype \in ObjectPrototypeKeys
  THEN [truthy |-> TRUE, msgdef |-> Undefined, md5sum |-> Undefined]
  ELSE [truthy |-> FALSE, msgdef |-> Undefined, md5sum |-> Undefined]

(***************************************************************************)
(* Connection and WriteChunk.                                              *)
(***************************************************************************)
\* new ConnectionExtRosbag1(callerid, latching)
ConnectionExtRosbag1(callerid, latching) ==
  [callerid |-> OrNull(callerid), latching |-> OrNull(latching)]

\* new Connection(...); ref stands for the identity of the JavaScript object
Connection(ref, id, topic, msgtype, msgdef, md5sum, ext) ==
  [ref |-> ref, id |-> id, topic |-> topic, msgtype |-> msgtype,
   msgdef |-> msgdef, md5sum |-> md5sum, ext |-> ext]

\* Number.MAX_SAFE_INTEGER, the "unset" value of chunk.start.  The model's
\* integers are 32 bits wide: the sentinel is the largest of them, and a
\* timestamp a caller passes is at most the sentinel
MAX_SAFE_INTEGER == 2147483647

\* new WriteChunk()
WriteChunk ==
  [dataParts |-> <<>>, size |-> 0, pos |-> -1, start |-> MAX_SAFE_INTEGER,
   end |-> 0, connections |-> <<>>]

\* a chunk that puts a new buffer first
ChunkPush_Front(c, buf) ==
  [c EXCEPT !.dataParts = <<buf>> \o @, !.size = @ + BufLen(buf)]

\* a chunk that does not count what is pushed
ChunkPush_NoSize(c, buf) ==
  [c EXCEPT !.dataParts = Append(@, buf)]

\* WriteChunk.push(buf)
ChunkPush(c, buf) ==
  [c EXCEPT !.dataParts = Append(@, buf), !.size = @ + BufLen(buf)]

\* an offset counted in buffers instead of bytes
ChunkOffset_InParts(c) == Len(c.dataParts)

\* WriteChunk.offset
ChunkOffset(c) == c.size

\* WriteChunk.toBuffer()
toBuffer(c) ==
  IF Len(c.dataParts) = 1 THEN c.dataParts[1]
  ELSE [kind |-> "body", parts |-> c.dataParts]

Min(a, b) == IF a < b THEN a ELSE b
Max(a, b) == IF a > b THEN a ELSE b

(***************************************************************************)
(* The state of one Writer and of the file system entry at its path.       *)
(***************************************************************************)
VARIABLES
  inMemory,          \* this._inMemory
  fileExists,        \* whether a file exists at this.path
  file,              \* the contents of that file, as the buffers written
  fd,                \* this.fd: "null" or "fd"
  opened,            \* this._opened: "undefined", "true" or "false"
  buffers,           \* this._buffers
  finalData,         \* this._finalData: <<>> while undefined, else <<array>>
  filePos,           \* this.filePos
  compressionFormat, \* this.compressionFormat
  connections,       \* this.connections
  chunkThreshold,    \* this.chunkThreshold
  chunks,            \* this.chunks
  result,            \* the last call: its name and how it ended
  hdr,               \* Header.fields of a Header a caller builds
  hcall              \* the last call on that Header: arguments and returned buffer

vars == <<inMemory, fileExists, file, fd, opened, buffers, finalData, filePos,
          compressionFormat, connections, chunkThreshold, chunks, result,
          hdr, hcall>>

\* the variables of the Writer but result, and those of the Header
wvars == <<inMemory, fileExists, file, fd, opened, buffers, finalData, filePos,
           compressionFormat, connections, chunkThreshold, chunks>>
hvars == <<hdr, hcall>>

\* no call on the Header yet
NoCall == [key |-> "", val |-> Null, opcode |-> NoOpcode, ret |-> <<>>]

\* a chunk threshold a caller sets instead of the default: the size of a chunk
\* that holds the records of the first connection of BagInputs and one message
ThresholdSmall == 187

\* constructor (with a path at which no file exists, or without a path)
Init ==
  /\ inMemory \in BOOLEAN
  /\ fileExists = FALSE
  /\ file = <<>>
  /\ fd = "null"
  /\ opened = "undefined"
  /\ buffers = <<>>
  /\ finalData = <<>>
  /\ filePos = 0
  /\ compressionFormat = "none"
  /\ connections = <<>>
  /\ chunkThreshold = 1 * 1048576
  /\ chunks = <<WriteChunk>>
  /\ result = [op |-> "constructor", kind |-> "ok"]
  /\ hdr = NewHeader
  /\ hcall = NoCall

\* a call that returns or throws without changing the writer
NoEffect(op, kind) ==
  /\ result' = [op |-> op, kind |-> kind]
  /\ UNCHANGED <<inMemory, fileExists, file, fd, opened, buffers, finalData, filePos,
                 compressionFormat, connections, chunkThreshold, chunks>>

\* what another program wrote at the path: 'foo'
ForeignFile == <<DataBuf(<<102, 111, 111>>)>>

\* before new Writer(path): a file exists at the path or not
InitFile ==
  /\ inMemory = FALSE
  /\ fileExists \in BOOLEAN
  /\ file = IF fileExists THEN ForeignFile ELSE <<>>
  /\ fd = "null"
  /\ opened = "undefined"
  /\ buffers = <<>>
  /\ finalData = <<>>
  /\ filePos = 0
  /\ compressionFormat = "none"
  /\ connections = <<>>
  /\ chunkThreshold = 1 * 1048576
  /\ chunks = <<WriteChunk>>
  /\ result = [op |-> "none", kind |-> "ok"]
  /\ hdr = NewHeader
  /\ hcall = NoCall

\* new Writer(path): throws when a file exists at the path, and then there is
\* no writer to call
constructor ==
  /\ result.op = "none"
  /\ IF ~inMemory /\ fileExists
     THEN NoEffect("constructor", "FileExists")
     ELSE NoEffect("constructor", "ok")

\* the constructor returned a writer
Constructed ==
  result.op # "none" /\ ~(result.op = "constructor" /\ result.kind = "FileExists")

\* a writer that takes "never opened" for open
NotOpened_OnlyAfterClose == opened = "false"

\* a writer that takes "closed" for open
NotOpened_OnlyFresh == opened = "undefined"

\* !this._opened
NotOpened == opened # "true"

(***************************************************************************)
(* The sink.  bag = [bufs, pos]: the buffers of the sink and this.filePos. *)
(***************************************************************************)
StartOf(bufs, i) == SumLen(SubSeq(bufs, 1, i - 1))

\* overwrite the bytes at [off, off + length of buf)
Patch(bufs, off, buf) ==
  IF \E i \in 1..Len(bufs) : StartOf(bufs, i) = off /\ BufLen(bufs[i]) = BufLen(buf)
  THEN LET i == CHOOSE j \in 1..Len(bufs) :
                  StartOf(bufs, j) = off /\ BufLen(bufs[j]) = BufLen(buf)
       IN  [bufs EXCEPT ![i] = buf]
  ELSE Append(bufs, [kind |-> "torn", b |-> <<>>, at |-> off, buf |-> buf])

\* fs.writeSync(fd, buf, 0, buf.length, pos)
WriteSync(bufs, buf, pos) ==
  IF pos = SumLen(bufs) THEN Append(bufs, buf) ELSE Patch(bufs, pos, buf)

\* a sink that does not advance the position in in-memory mode
_writeToBag_MemNoPos(bag, buf) ==
  IF inMemory
  THEN [bufs |-> Append(bag.bufs, buf), pos |-> bag.pos]
  ELSE [bufs |-> WriteSync(bag.bufs, buf, bag.pos), pos |-> bag.pos + BufLen(buf)]

\* Writer._writeToBag(buf)
_writeToBag(bag, buf) ==
  IF inMemory
  THEN [bufs |-> Append(bag.bufs, buf), pos |-> bag.pos + BufLen(buf)]
  ELSE [bufs |-> WriteSync(bag.bufs, buf, bag.pos), pos |-> bag.pos + BufLen(buf)]

RECURSIVE WriteAllToBag(_, _)
WriteAllToBag(bag, bufs) ==
  IF bufs = <<>> THEN bag
  ELSE WriteAllToBag(_writeToBag(bag, Head(bufs)), Tail(bufs))

Bag == [bufs |-> IF inMemory THEN buffers ELSE file, pos |-> filePos]

\* the bytes of the sink: this._buffers, or the file
Sink == IF inMemory THEN buffers ELSE file

(***************************************************************************)
(* open()                                                                  *)
(***************************************************************************)
\* the three buffers open() writes
OpenBufs ==
  LET header == setUint32(setUint32(setUint64(NewHeader, "index_pos", 0),
                                    "conn_count", 0), "chunk_count", 0)
      headerBuf == serialize(header, BAGHEADER)
      padsize == 4096 - 4 - (BufLen(headerBuf) - 4)
  IN  <<MagicBuf, headerBuf, PadBuf(padsize)>>

NumOpens == Cardinality({i \in 1..Len(Sink) : Sink[i].kind = "magic"})

\* a test that looks at the file descriptor only
AlreadyOpen_FdOnly == fd # "null"

\* this.fd !== null || this._opened
AlreadyOpen == fd # "null" \/ opened = "true"

\* a file opened with flag 'w', which never fails on an existing file
OpenSyncThrows_W == FALSE

\* fs.openSync(this.path, 'wx') throws EEXIST when the path exists
OpenSyncThrows == fileExists

open ==
  /\ IF AlreadyOpen
     THEN /\ result' = [op |-> "open", kind |-> "noop"]
          /\ UNCHANGED <<inMemory, fileExists, file, fd, opened, buffers, finalData,
                         filePos, compressionFormat, connections, chunkThreshold,
                         chunks>>
     ELSE IF ~inMemory /\ OpenSyncThrows
     THEN \* fs.openSync(path, 'wx') throws EEXIST
          /\ result' = [op |-> "open", kind |-> "FileExists"]
          /\ UNCHANGED <<inMemory, fileExists, file, fd, opened, buffers, finalData,
                         filePos, compressionFormat, connections, chunkThreshold,
                         chunks>>
     ELSE LET bag == WriteAllToBag(Bag, OpenBufs)
          IN  /\ fd' = IF inMemory THEN fd ELSE "fd"
              /\ fileExists' = IF inMemory THEN fileExists ELSE TRUE
              /\ buffers' = IF inMemory THEN bag.bufs ELSE buffers
              /\ file' = IF inMemory THEN file ELSE bag.bufs
              /\ filePos' = bag.pos
              /\ opened' = "true"
              /\ result' = [op |-> "open", kind |-> "ok"]
              /\ UNCHANGED <<inMemory, finalData, compressionFormat, connections,
                             chunkThreshold, chunks>>

(***************************************************************************)
(* addConnection(topic, msgtype, msgdef, md5sum, {callerid, latching})     *)
(***************************************************************************)
\* the arguments the model calls addConnection with
In(topic, msgtype, msgdef, md5sum, callerid, latching) ==
  [topic |-> topic, msgtype |-> msgtype, msgdef |-> msgdef,
   md5sum |-> md5sum, callerid |-> callerid, latching |-> latching]

\* the inputs of Spec: two schemas of different sizes, one without a schema
BagInputs ==
  { In("/foo", "test_msgs/msg/Test", Str("MESSAGE_DEFINITION"), Str("HASH"), Null, Null),
    In("/foo", "std_msgs/msg/Int8", Null, Null, Null, Null),
    In("/foo", "test_msgs/msg/Test", Null, Null, Null, Null) }

\* the inputs of SpecChunk: the two schemas
ChunkInputs ==
  { In("/foo", "test_msgs/msg/Test", Str("MESSAGE_DEFINITION"), Str("HASH"), Null, Null),
    In("/foo", "std_msgs/msg/Int8", Null, Null, Null, Null) }

\* the inputs of SpecConn
AddInputs ==
      { In("/foo", "test_msgs/msg/Test", Str("MESSAGE_DEFINITION"), Str("HASH"), Null, Null),
        In("/foo", "test_msgs/msg/Test", Str("MESSAGE_DEFINITION"), Str("HASH"), Null, Num(1)),
        In("/foo", "test_msgs/msg/Test", Str("MESSAGE_DEFINITION"), Str("HASH"), Str("src"), Null),
        In("/foo", "std_msgs/msg/Int8", Null, Null, Null, Null),
        In("/foo", "std_msgs/msg/Int8", Str("int8 data\n"), Null, Null, Null),
        In("/foo", "test_msgs/msg/Test", Null, Null, Null, Null),
        In("/foo", "test_msgs/msg/Test", Str("MESSAGE_DEFINITION"), Null, Null, Null),
        In("/foo", "toString", Null, Null, Null, Null) }

\* msgdef and md5sum after the lookup in PREDEFINED
Resolve(in) ==
  LET predef == PredefLookup(in.msgtype)
      fill == (in.msgdef = Null \/ in.md5sum = Null) /\ predef.truthy
  IN  [msgdef |-> IF fill /\ in.msgdef = Null THEN predef.msgdef ELSE in.msgdef,
       md5sum |-> IF fill /\ in.md5sum = Null THEN predef.md5sum ELSE in.md5sum]

\* ids counted from one
NextId_OneBased == Len(connections) + 1

\* the id of the next connection
NextId == Len(connections)

\* a uniqueness check that leaves the extension fields out
IsDuplicate_NoExt(connection) ==
  \E i \in 1..Len(connections) :
    LET x == connections[i]
    IN  /\ x.topic = connection.topic
        /\ x.msgtype = connection.msgtype
        /\ x.msgdef = connection.msgdef
        /\ x.md5sum = connection.md5sum

\* this.connections.some(...)
IsDuplicate(connection) ==
  \E i \in 1..Len(connections) :
    LET x == connections[i]
    IN  /\ x.topic = connection.topic
        /\ x.msgtype = connection.msgtype
        /\ x.msgdef = connection.msgdef
        /\ x.md5sum = connection.md5sum
        /\ OrNull(x.ext.callerid) = OrNull(connection.ext.callerid)
        /\ OrNull(x.ext.latching) = OrNull(connection.ext.latching)

\* Writer._writeConnectionRecord: the two headers it pushes
\* a connection whose records are left out
_writeConnectionRecord_None(connection) == <<>>

_writeConnectionRecord(connection) ==
  LET h1 == setString(setUint32(NewHeader, "conn", connection.id),
                      "topic", Str(connection.topic))
      h2a == setString(setString(setString(setString(NewHeader,
                 "topic", Str(connection.topic)),
                 "type", Str(connection.msgtype)),
                 "md5sum", connection.md5sum),
                 "message_definition", connection.msgdef)
      h2b == IF connection.ext.callerid # Null
             THEN setString(h2a, "callerid", connection.ext.callerid) ELSE h2a
      h2 == IF connection.ext.latching # Null
            THEN setString(h2b, "latching", Str(String(connection.ext.latching))) ELSE h2b
  IN  <<serialize(h1, CONNECTION), serialize(h2, NoOpcode)>>

RECURSIVE ChunkPushAll(_, _)
ChunkPushAll(c, bufs) ==
  IF bufs = <<>> THEN c ELSE ChunkPushAll(ChunkPush(c, Head(bufs)), Tail(bufs))

\* an addConnection that writes the chunk to the sink once it has grown past
\* the threshold
addConnection_Flushes(in) ==
  IF NotOpened THEN NoEffect("addConnection", "NotOpen")
  ELSE LET r == Resolve(in)
       IN  IF r.msgdef = Null \/ r.md5sum = Null
           THEN NoEffect("addConnection", "SchemaRequired")
           ELSE LET connection ==
                      Connection([w |-> "this", n |-> Len(connections)], NextId,
                                 in.topic, in.msgtype, r.msgdef, r.md5sum,
                                 ConnectionExtRosbag1(in.callerid, in.latching))
                    c == ChunkPushAll(chunks[Len(chunks)], _writeConnectionRecord(connection))
                    h == setUint32(setString(NewHeader, "compression", Str(compressionFormat)),
                                   "size", c.size)
                    out == <<serialize(h, CHUNK), U32Buf(BufLen(toBuffer(c))), toBuffer(c)>>
                    bag == IF c.size > chunkThreshold THEN WriteAllToBag(Bag, out) ELSE Bag
                IN  IF IsDuplicate(connection)
                    THEN NoEffect("addConnection", "DuplicateConnection")
                    ELSE /\ chunks' = IF c.size > chunkThreshold
                                       THEN Append([chunks EXCEPT ![Len(chunks)] =
                                                      [c EXCEPT !.pos = Bag.pos]], WriteChunk)
                                       ELSE [chunks EXCEPT ![Len(chunks)] = c]
                         /\ buffers' = IF inMemory THEN bag.bufs ELSE buffers
                         /\ file' = IF inMemory THEN file ELSE bag.bufs
                         /\ filePos' = bag.pos
                         /\ connections' = Append(connections, connection)
                         /\ result' = [op |-> "addConnection", kind |-> "ok"]
                         /\ UNCHANGED <<inMemory, fileExists, fd, opened, finalData,
                                        compressionFormat, chunkThreshold>>

addConnection(in) ==
  IF NotOpened THEN NoEffect("addConnection", "NotOpen")
  ELSE LET r == Resolve(in)
       IN  IF r.msgdef = Null \/ r.md5sum = Null
           THEN NoEffect("addConnection", "SchemaRequired")
           ELSE LET connection ==
                      Connection([w |-> "this", n |-> Len(connections)], NextId,
                                 in.topic, in.msgtype, r.msgdef, r.md5sum,
                                 ConnectionExtRosbag1(in.callerid, in.latching))
                IN  IF IsDuplicate(connection)
                    THEN NoEffect("addConnection", "DuplicateConnection")
                    ELSE /\ chunks' = [chunks EXCEPT ![Len(chunks)] =
                                         ChunkPushAll(@, _writeConnectionRecord(connection))]
                         /\ connections' = Append(connections, connection)
                         /\ result' = [op |-> "addConnection", kind |-> "ok"]
                         /\ UNCHANGED <<inMemory, fileExists, file, fd, opened, buffers,
                                        finalData, filePos, compressionFormat,
                                        chunkThreshold>>

(***************************************************************************)
(* _writeChunk(chunk), for the chunk at index i of this.chunks: the chunk  *)
(* list and the sink afterwards.                                           *)
(***************************************************************************)
RECURSIVE EntryBufs(_)
EntryBufs(items) ==
  IF items = <<>> THEN <<>>
  ELSE <<EntryBuf(Head(items)[1], Head(items)[2])>> \o EntryBufs(Tail(items))

\* the IDXDATA records of a chunk, one per entry of chunk.connections
RECURSIVE IdxBufs(_)
IdxBufs(conns) ==
  IF conns = <<>> THEN <<>>
  ELSE LET cid == Head(conns).cid
           items == Head(conns).items
           idxHeader == setUint32(setUint32(setUint32(NewHeader, "ver", 1),
                                            "conn", cid), "count", Len(items))
       IN  <<serialize(idxHeader, IDXDATA), U32Buf(Len(items) * 12)>>
           \o EntryBufs(items) \o IdxBufs(Tail(conns))

\* a chunk taken as empty when it holds no message
IsEmpty_NoMessages(chunk) == chunk.connections = <<>>

\* chunk.size === 0: nothing to do
IsEmpty(chunk) == chunk.size = 0

\* a flush that installs no new chunk
_writeChunk_NoNew(chs, bag, i) ==
  LET chunk == chs[i]
  IN  IF IsEmpty(chunk) THEN [chunks |-> chs, bag |-> bag]
      ELSE LET h == setUint32(setString(NewHeader, "compression", Str(compressionFormat)),
                              "size", chunk.size)
               chunkDataBuf == toBuffer(chunk)
               out == <<serialize(h, CHUNK), U32Buf(BufLen(chunkDataBuf)), chunkDataBuf>>
                      \o IdxBufs(chunk.connections)
           IN  [chunks |-> [chs EXCEPT ![i].pos = bag.pos],
                bag |-> WriteAllToBag(bag, out)]

\* (its callers have checked this._opened, so its own check never throws)
_writeChunk(chs, bag, i) ==
  LET chunk == chs[i]
  IN  IF IsEmpty(chunk) THEN [chunks |-> chs, bag |-> bag]
      ELSE LET h == setUint32(setString(NewHeader, "compression", Str(compressionFormat)),
                              "size", chunk.size)
               chunkDataBuf == toBuffer(chunk)
               out == <<serialize(h, CHUNK), U32Buf(BufLen(chunkDataBuf)), chunkDataBuf>>
                      \o IdxBufs(chunk.connections)
           IN  [chunks |-> Append([chs EXCEPT ![i].pos = bag.pos], WriteChunk),
                bag |-> WriteAllToBag(bag, out)]

(***************************************************************************)
(* write(connection, timestamp, data)                                      *)
(***************************************************************************)
Timestamps == {42, 43}
\* two small timestamps, and one that is Number.MAX_SAFE_INTEGER nanoseconds
TimestampsChunk == {42, 43, MAX_SAFE_INTEGER}
Payloads == {<<66>>}

\* a connection of another Writer
OtherConnection ==
  Connection([w |-> "other", n |-> 0], 0, "/foo", "std_msgs/msg/Int8",
             Str("int8 data\n"), Str("27ffa0c9c4b8fb8492252bcad9e5c57b"),
             ConnectionExtRosbag1(Null, Null))

\* what a caller can pass as connection: a connection this writer returned,
\* a copy of one (another object with the same fields), another writer's
Foreign ==
  {[connections[i] EXCEPT !.ref.w = "copy"] : i \in 1..Len(connections)}
  \cup {OtherConnection}

Handles == {connections[i] : i \in 1..Len(connections)} \cup Foreign

\* the same, with only the first of the connections this writer returned
HandlesConn == {connections[i] : i \in 1..Min(1, Len(connections))} \cup Foreign

\* the connections this writer returned
HandlesOwn == {connections[i] : i \in 1..Len(connections)}

\* a lookup by id instead of by object
Includes_ById(connection) ==
  \E i \in 1..Len(connections) : connections[i].id = connection.id

\* this.connections.includes(connection): the same object
Includes(connection) ==
  \E i \in 1..Len(connections) : connections[i].ref = connection.ref

\* chunk.connections after has / set / get(...).push
IndexPush(conns, cid, entry) ==
  IF \E i \in 1..Len(conns) : conns[i].cid = cid
  THEN [i \in 1..Len(conns) |->
          IF conns[i].cid = cid
          THEN [conns[i] EXCEPT !.items = Append(@, entry)] ELSE conns[i]]
  ELSE Append(conns, [cid |-> cid, items |-> <<entry>>])

RECURSIVE NumItems(_)
NumItems(conns) ==
  IF conns = <<>> THEN 0 ELSE Len(Head(conns).items) + NumItems(Tail(conns))

RECURSIVE NumMsgsIn(_)
NumMsgsIn(chs) ==
  IF chs = <<>> THEN 0 ELSE NumItems(Head(chs).connections) + NumMsgsIn(Tail(chs))

\* the three buffers of a message record
MessageBufs(connection, timestamp, data) ==
  LET header == setTime(setUint32(NewHeader, "conn", connection.id), "time", timestamp)
  IN  <<serialize(header, MSGDATA), U32Buf(Len(data)), DataBuf(data)>>

\* a comparison that also rotates a chunk that has just reached the threshold
Exceeds_OrEqual(chunk) == chunk.size >= chunkThreshold

\* chunk.size > this.chunkThreshold
Exceeds(chunk) == chunk.size > chunkThreshold

write(connection, timestamp, data) ==
  IF NotOpened THEN NoEffect("write", "NotOpen")
  ELSE IF ~Includes(connection) THEN NoEffect("write", "UnknownConnection")
  ELSE LET n == Len(chunks)
               c0 == chunks[n]
               c1 == [c0 EXCEPT
                        !.connections = IndexPush(@, connection.id,
                                                  <<timestamp, ChunkOffset(c0)>>),
                        !.start = Min(@, timestamp),
                        !.end = Max(@, timestamp)]
               c2 == ChunkPushAll(c1, MessageBufs(connection, timestamp, data))
               chs == [chunks EXCEPT ![n] = c2]
               w == IF Exceeds(c2)
                    THEN _writeChunk(chs, Bag, n)
                    ELSE [chunks |-> chs, bag |-> Bag]
           IN  /\ chunks' = w.chunks
               /\ buffers' = IF inMemory THEN w.bag.bufs ELSE buffers
               /\ file' = IF inMemory THEN file ELSE w.bag.bufs
               /\ filePos' = w.bag.pos
               /\ result' = [op |-> "write", kind |-> "ok"]
               /\ UNCHANGED <<inMemory, fileExists, fd, opened, finalData,
                              compressionFormat, connections, chunkThreshold>>

(***************************************************************************)
(* close()                                                                 *)
(***************************************************************************)
RECURSIVE AllConnectionBufs(_)
AllConnectionBufs(conns) ==
  IF conns = <<>> THEN <<>>
  ELSE _writeConnectionRecord(Head(conns)) \o AllConnectionBufs(Tail(conns))

\* a connInfoBuf that lists the entries of chunk.connections last to first
RECURSIVE ConnInfoBytes_Reversed(_)
ConnInfoBytes_Reversed(conns) ==
  IF conns = <<>> THEN <<>>
  ELSE ConnInfoBytes_Reversed(Tail(conns))
       \o serializeUInt32(Head(conns).cid) \o serializeUInt32(Len(Head(conns).items))

\* connInfoBuf: cid and number of messages of every entry of chunk.connections
RECURSIVE ConnInfoBytes(_)
ConnInfoBytes(conns) ==
  IF conns = <<>> THEN <<>>
  ELSE serializeUInt32(Head(conns).cid) \o serializeUInt32(Len(Head(conns).items))
       \o ConnInfoBytes(Tail(conns))

\* a start time that keeps the sentinel of a chunk without messages
StartTime_Raw(chunk) == chunk.start

\* chunk.start === Number.MAX_SAFE_INTEGER ? 0 : chunk.start
StartTime(chunk) == IF chunk.start = MAX_SAFE_INTEGER THEN 0 ELSE chunk.start

\* the CHUNK_INFO records of the flushed chunks
RECURSIVE ChunkInfoBufs(_)
ChunkInfoBufs(chs) ==
  IF chs = <<>> THEN <<>>
  ELSE LET chunk == Head(chs)
           infoHeader ==
             setUint32(setTime(setTime(setUint64(setUint32(NewHeader, "ver", 1),
               "chunk_pos", chunk.pos),
               "start_time", StartTime(chunk)),
               "end_time", chunk.end),
               "count", Len(chunk.connections))
           connInfoBuf == [kind |-> "conninfo", b |-> ConnInfoBytes(chunk.connections)]
       IN  (IF chunk.pos = -1 THEN <<>>
            ELSE <<serialize(infoHeader, CHUNK_INFO), U32Buf(BufLen(connInfoBuf)),
                   connInfoBuf>>)
           \o ChunkInfoBufs(Tail(chs))

NumFlushed(chs) == Cardinality({i \in 1..Len(chs) : chs[i].pos # -1})

\* a final header padded for a header buffer counted without its length field
FinalBufs_ShortPad(indexPos, chs) ==
  LET finalHeader == setUint32(setUint32(setUint64(NewHeader, "index_pos", indexPos),
                                         "conn_count", Len(connections)),
                               "chunk_count", NumFlushed(chs))
      finalHeaderBuf == serialize(finalHeader, BAGHEADER)
      padsize == 4096 - 4 - BufLen(finalHeaderBuf)
  IN  <<finalHeaderBuf, PadBuf(padsize)>>

\* the final BAGHEADER and its padding
FinalBufs(indexPos, chs) ==
  LET finalHeader == setUint32(setUint32(setUint64(NewHeader, "index_pos", indexPos),
                                         "conn_count", Len(connections)),
                               "chunk_count", NumFlushed(chs))
      finalHeaderBuf == serialize(finalHeader, BAGHEADER)
      padsize == 4096 - 4 - (BufLen(finalHeaderBuf) - 4)
  IN  <<finalHeaderBuf, PadBuf(padsize)>>

close ==
  IF NotOpened
  THEN NoEffect("close", "noop")
  ELSE LET n == Len(chunks)
           w0 == IF chunks[n].pos = -1
                 THEN _writeChunk(chunks, Bag, n)
                 ELSE [chunks |-> chunks, bag |-> Bag]
           indexPos == w0.bag.pos
           bag1 == WriteAllToBag(w0.bag, AllConnectionBufs(connections))
           bag2 == WriteAllToBag(bag1, ChunkInfoBufs(w0.chunks))
           fin == FinalBufs(indexPos, w0.chunks)
           patched(bufs) == Patch(Patch(bufs, 13, fin[1]), 13 + BufLen(fin[1]), fin[2])
       IN  /\ chunks' = w0.chunks
           /\ filePos' = bag2.pos
           /\ IF inMemory
              THEN /\ buffers' = bag2.bufs
                   /\ finalData' = <<patched(bag2.bufs)>>
                   /\ UNCHANGED <<file, fd>>
              ELSE /\ file' = WriteSync(WriteSync(bag2.bufs, fin[1], 13),
                                        fin[2], 13 + BufLen(fin[1]))
                   /\ fd' = "null"
                   /\ UNCHANGED <<buffers, finalData>>
           /\ opened' = "false"
           /\ result' = [op |-> "close", kind |-> "ok"]
           /\ UNCHANGED <<inMemory, fileExists, compressionFormat, connections,
                          chunkThreshold>>

(***************************************************************************)
(* getUint8Array(), setCompression(fmt), and what the caller and the file  *)
(* system do around the writer.                                            *)
(***************************************************************************)
getUint8Array ==
  IF ~inMemory THEN NoEffect("getUint8Array", "WrongMode")
  ELSE IF finalData = <<>> THEN NoEffect("getUint8Array", "NotClosed")
  ELSE NoEffect("getUint8Array", "ok")

CompressionFormats == {"none", "bz2"}

\* a setter that stores the format
setCompression_Sets(fmt) ==
  /\ compressionFormat' = fmt
  /\ result' = [op |-> "setCompression", kind |-> "ok"]
  /\ UNCHANGED <<inMemory, fileExists, file, fd, opened, buffers, finalData, filePos,
                 connections, chunkThreshold, chunks>>

setCompression(fmt) == NoEffect("setCompression", "Unsupported")

\* writer.chunkThreshold = ThresholdSmall, before the bag is opened
setChunkThreshold ==
  /\ opened = "undefined"
  /\ chunkThreshold # ThresholdSmall
  /\ chunkThreshold' = ThresholdSmall
  /\ result' = [op |-> "setChunkThreshold", kind |-> "ok"]
  /\ UNCHANGED <<inMemory, fileExists, file, fd, opened, buffers, finalData, filePos,
                 compressionFormat, connections, chunks>>

\* another program creates a file at the path between construction and open()
externalCreate ==
  /\ ~inMemory
  /\ opened = "undefined"
  /\ ~fileExists
  /\ fileExists' = TRUE
  /\ file' = ForeignFile
  /\ result' = [op |-> "externalCreate", kind |-> "ok"]
  /\ UNCHANGED <<inMemory, fd, opened, buffers, finalData, filePos, compressionFormat,
                 connections, chunkThreshold, chunks>>

NumMsgs == NumMsgsIn(chunks)

\* the writer with two schemas, two timestamps, a small or the default chunk
\* threshold, and re-opening
Next ==
  \/ open /\ NumOpens' <= MaxOpens /\ UNCHANGED hvars
  \/ \E in \in BagInputs : addConnection(in) /\ Len(connections') <= MaxConns /\ UNCHANGED hvars
  \/ \E connection \in Handles, timestamp \in Timestamps, data \in Payloads :
       write(connection, timestamp, data) /\ NumMsgs' <= MaxMsgs /\ UNCHANGED hvars
  \/ close /\ UNCHANGED hvars
  \/ getUint8Array /\ UNCHANGED hvars
  \/ \E fmt \in CompressionFormats : setCompression(fmt) /\ UNCHANGED hvars
  \/ setChunkThreshold /\ UNCHANGED hvars
  \/ externalCreate /\ UNCHANGED hvars

Spec == Init /\ [][Next]_vars

\* the writer with every addConnection input, one timestamp, the default chunk
\* threshold, and a caller that does not call open() on a closed writer
NextConn ==
  \/ open /\ opened # "false" /\ UNCHANGED hvars
  \/ \E in \in AddInputs : addConnection(in) /\ Len(connections') <= MaxConnsC /\ UNCHANGED hvars
  \/ \E connection \in HandlesConn, data \in Payloads :
       write(connection, 42, data) /\ NumMsgs' <= MaxMsgsC /\ UNCHANGED hvars
  \/ close /\ UNCHANGED hvars

SpecConn == Init /\ [][NextConn]_vars

\* the writer with two schemas, three timestamps, a small or the default chunk
\* threshold, and a caller that passes the handles it got and does not call
\* open() on a closed writer
NextChunk ==
  \/ open /\ opened # "false" /\ UNCHANGED hvars
  \/ setChunkThreshold /\ UNCHANGED hvars
  \/ \E in \in ChunkInputs : addConnection(in) /\ Len(connections') <= MaxConnsK /\ UNCHANGED hvars
  \/ \E connection \in HandlesOwn, timestamp \in TimestampsChunk, data \in Payloads :
       write(connection, timestamp, data) /\ NumMsgs' <= MaxMsgsK /\ UNCHANGED hvars
  \/ close /\ UNCHANGED hvars

SpecChunk == Init /\ [][NextChunk]_vars

\* the writer in file mode, with a file that exists at the path before the
\* constructor runs or is created before open()
NextFile ==
  \/ constructor /\ UNCHANGED hvars
  \/ Constructed /\ externalCreate /\ UNCHANGED hvars
  \/ Constructed /\ open /\ UNCHANGED hvars
  \/ \E in \in BagInputs :
       Constructed /\ addConnection(in) /\ Len(connections') <= MaxConnsC /\ UNCHANGED hvars
  \/ \E connection \in HandlesConn, data \in Payloads :
       Constructed /\ write(connection, 42, data) /\ NumMsgs' <= MaxMsgsC /\ UNCHANGED hvars
  \/ Constructed /\ close /\ UNCHANGED hvars

SpecFile == InitFile /\ [][NextFile]_vars

(***************************************************************************)
(* A Header a caller builds field by field and serializes.                 *)
(***************************************************************************)
HeaderKeys == {"conn", "time", "topic"}
Uint32Values == {Num(1)}
Uint64Values == {Num(4113), BigInt(0)}
StringValues == {Str("/foo"), Num(1)}
\* timestamps as Numbers: 0, the last nanosecond of second 0, the first of
\* second 1 and the largest the model holds; and the 123n of the README
TimeValues == {Num(0), Num(BILLION - 1), Num(BILLION), Num(MAX_SAFE_INTEGER), BigInt(123)}
Opcodes == {NoOpcode, MSGDATA, CONNECTION}

\* a call on the Header that returns undefined
HeaderSet(op, name, value, fields) ==
  /\ hdr' = fields
  /\ hcall' = [key |-> name, val |-> value, opcode |-> NoOpcode, ret |-> <<>>]
  /\ result' = [op |-> op, kind |-> "ok"]
  /\ UNCHANGED wvars

HeaderSetUint32(name, value) ==
  HeaderSet("setUint32", name, value, setUint32(hdr, name, value.n))

\* BigInt(val) takes a number or a bigint
HeaderSetUint64(name, value) ==
  HeaderSet("setUint64", name, value, setUint64(hdr, name, value.n))

HeaderSetString(name, value) ==
  HeaderSet("setString", name, value, setString(hdr, name, value))

\* ns / 1e9 with a BigInt ns: TypeError, Cannot mix BigInt and other types
MixesBigInt(ns) == ns.t = "bigint"

HeaderSetTime(name, value) ==
  IF MixesBigInt(value)
  THEN /\ hcall' = [key |-> name, val |-> value, opcode |-> NoOpcode, ret |-> <<>>]
       /\ result' = [op |-> "setTime", kind |-> "TypeError"]
       /\ UNCHANGED <<wvars, hdr>>
  ELSE HeaderSet("setTime", name, value, setTime(hdr, name, value.n))

HeaderSerialize(opcode) ==
  /\ hcall' = [key |-> "", val |-> Null, opcode |-> opcode,
               ret |-> <<serialize(hdr, opcode)>>]
  /\ result' = [op |-> "serialize", kind |-> "ok"]
  /\ UNCHANGED <<wvars, hdr>>

NextHeader ==
  \/ \E name \in HeaderKeys, value \in Uint32Values : HeaderSetUint32(name, value)
  \/ \E name \in HeaderKeys, value \in Uint64Values : HeaderSetUint64(name, value)
  \/ \E name \in HeaderKeys, value \in StringValues : HeaderSetString(name, value)
  \/ \E name \in HeaderKeys, value \in TimeValues : HeaderSetTime(name, value)
  \/ \E opcode \in Opcodes : HeaderSerialize(opcode)

SpecHeader == Init /\ [][NextHeader]_vars

(***************************************************************************)
(* Reading the state back.                                                 *)
(***************************************************************************)
Fresh == opened = "undefined"
Open == opened = "true"
Closed == opened = "false"

\* the bag as produced: the file, or the array close() stores in memory
Produced == IF inMemory THEN (IF finalData = <<>> THEN <<>> ELSE finalData[1]) ELSE file

\* a header buffer with this opcode
IsRecord(buf, opcode) == buf.kind = "header" /\ buf.op = <<opcode>>

\* the number stored under a key of a header buffer
Field(buf, key) ==
  LEValue(buf.fields[CHOOSE i \in 1..Len(buf.fields) : buf.fields[i].key = key].val.v)

\* how many records with this opcode a sequence of buffers holds
NumRecords(bufs, opcode) ==
  Cardinality({i \in 1..Len(bufs) : IsRecord(bufs[i], opcode)})

\* the index after the IDXDATA records that start at index i
RECURSIVE SkipIdx(_, _)
SkipIdx(bufs, i) ==
  IF i <= Len(bufs) /\ IsRecord(bufs[i], IDXDATA)
  THEN SkipIdx(bufs, i + 2 + Field(bufs[i], "count"))
  ELSE i

\* the position after the CHUNK and IDXDATA records of the last chunk in the
\* bag, or after the header envelope when the bag has no chunk
AfterLastChunk(bufs) ==
  LET cs == {i \in 1..Len(bufs) : IsRecord(bufs[i], CHUNK)}
  IN  IF cs = {} THEN StartOf(bufs, 4)
      ELSE LET k == CHOOSE i \in cs : \A j \in cs : j <= i
           IN  StartOf(bufs, SkipIdx(bufs, k + 3))

\* the positions of the CHUNK records of a bag, in file order
RECURSIVE ChunkPositions(_, _)
ChunkPositions(bufs, i) ==
  IF i > Len(bufs) THEN <<>>
  ELSE (IF IsRecord(bufs[i], CHUNK) THEN <<StartOf(bufs, i)>> ELSE <<>>)
       \o ChunkPositions(bufs, i + 1)

\* the buffers of a chunk body as the sink holds it
BodyParts(buf) == IF buf.kind = "body" THEN buf.parts ELSE <<buf>>

\* the bodies of the CHUNK records of a bag, in file order, one after the other
RECURSIVE AllParts(_, _)
AllParts(bufs, i) ==
  IF i > Len(bufs) THEN <<>>
  ELSE (IF IsRecord(bufs[i], CHUNK) THEN BodyParts(bufs[i + 2]) ELSE <<>>)
       \o AllParts(bufs, i + 1)

\* the nanoseconds a serialized time stands for
TimeOf(v) == LEValue(SubSeq(v, 1, 4)) * BILLION + LEValue(SubSeq(v, 5, 8))

\* the nanoseconds a time field of a header buffer stands for
TimeField(buf, key) ==
  TimeOf(buf.fields[CHOOSE i \in 1..Len(buf.fields) : buf.fields[i].key = key].val.v)

\* the MSGDATA records of a sequence of buffers, in order: connection id, time,
\* payload
RECURSIVE MsgsOf(_, _)
MsgsOf(parts, k) ==
  IF k > Len(parts) THEN <<>>
  ELSE (IF /\ IsRecord(parts[k], MSGDATA) /\ k + 2 <= Len(parts)
           /\ parts[k + 1].kind = "u32" /\ parts[k + 2].kind = "data"
           /\ LEValue(parts[k + 1].b) = Len(parts[k + 2].b)
        THEN <<[conn |-> Field(parts[k], "conn"), time |-> TimeField(parts[k], "time"),
                data |-> parts[k + 2].b]>>
        ELSE <<>>)
       \o MsgsOf(parts, k + 1)

\* the messages the writer holds, in file order: those of the chunks in the
\* sink, then those of the active chunk
Stored(sink, chs) == MsgsOf(AllParts(sink, 1), 1) \o MsgsOf(chs[Len(chs)].dataParts, 1)

\* the flushed chunks, in the order of this.chunks
Flushed(chs) == SelectSeq(chs, LAMBDA c : c.pos # -1)

\* at byte offset off of a chunk body a MSGDATA record of connection cid and
\* time t begins
MsgAt(parts, off, cid, t) ==
  \E k \in 1..Len(parts) :
    /\ StartOf(parts, k) = off
    /\ IsRecord(parts[k], MSGDATA)
    /\ Field(parts[k], "conn") = cid
    /\ TimeField(parts[k], "time") = t

\* the index of the CHUNK record that the record at index j of a bag follows
ChunkBefore(bufs, j) ==
  CHOOSE i \in 1..j : /\ IsRecord(bufs[i], CHUNK)
                      /\ \A l \in (i + 1)..j : ~IsRecord(bufs[l], CHUNK)

\* the text stored under a key of a header buffer
TextField(buf, key) ==
  buf.fields[CHOOSE i \in 1..Len(buf.fields) : buf.fields[i].key = key].val.v

\* where in a sequence of buffers the record pair of a connection stands
PairPlaces(bufs, connection) ==
  LET pair == _writeConnectionRecord(connection)
  IN  {k \in 1..(Len(bufs) - 1) : bufs[k] = pair[1] /\ bufs[k + 1] = pair[2]}

\* (topic, msgtype, msgdef, md5sum, callerid, latching) of a connection
SixTuple(c) == <<c.topic, c.msgtype, c.msgdef, c.md5sum, c.ext.callerid, c.ext.latching>>

(***************************************************************************)
(* The claims.                                                             *)
(***************************************************************************)

\* C1: phase transitions are one-way: once close() has completed on an Open
\* writer, no later call makes the writer Open again or adds a byte to the sink.
C1_OneWay ==
  [][Closed => (~Open' /\ SumLen(Sink') = SumLen(Sink))]_vars

C3_IdsDense ==
  [][/\ \A i \in 1..Len(connections') : connections'[i].id = i - 1
     /\ Len(connections') >= Len(connections)
     /\ SubSeq(connections', 1, Len(connections)) = connections
     /\ (result'.op = "addConnection" /\ result'.kind # "ok")
          => connections' = connections]_vars

\* two connections registered, and an addConnection that has just been refused
C3_Witness ==
  /\ Len(connections) = 2
  /\ result = [op |-> "addConnection", kind |-> "DuplicateConnection"]

\* C4: on an Open writer, an addConnection whose schema resolves is refused with
\* DuplicateConnection exactly when a registered connection has the same
\* six-tuple (with the resolved msgdef and md5sum); a refusal leaves the registry,
\* the active chunk and the sink unchanged; no two registered connections ever
\* share the six-tuple.
C4_DuplicateExactly ==
  [][/\ \A in \in AddInputs :
          LET r == Resolve(in)
              tuple == <<in.topic, in.msgtype, r.msgdef, r.md5sum,
                         in.callerid, in.latching>>
          IN  (Open /\ addConnection(in) /\ r.msgdef # Null /\ r.md5sum # Null)
                => (result'.kind = "DuplicateConnection"
                      <=> \E i \in 1..Len(connections) :
                            SixTuple(connections[i]) = tuple)
     /\ (result'.op = "addConnection" /\ result'.kind = "DuplicateConnection")
          => UNCHANGED <<connections, chunks, buffers, file, filePos>>
     /\ \A i, j \in 1..Len(connections') :
          i # j => SixTuple(connections'[i]) # SixTuple(connections'[j])]_vars

\* two connections that differ only in latching are registered, and a third
\* addConnection has just been refused as a duplicate
C4_Witness ==
  /\ Len(connections) = 2
  /\ connections[1].ext.latching # connections[2].ext.latching
  /\ [connections[1] EXCEPT !.ext.latching = Null, !.id = 0, !.ref = 0]
       = [connections[2] EXCEPT !.ext.latching = Null, !.id = 0, !.ref = 0]
  /\ result = [op |-> "addConnection", kind |-> "DuplicateConnection"]

\* the keys of the predefined schema table
TableKeys ==
  {"std_msgs/msg/Int8", "sensor_msgs/msg/CompressedImage", "sensor_msgs/msg/Image",
   "sensor_msgs/msg/Imu", "std_msgs/Int8", "sensor_msgs/CompressedImage",
   "sensor_msgs/Image", "sensor_msgs/Imu"}

\* C5: on an Open writer, addConnection without msgdef or without md5sum fails
\* with SchemaRequired when msgtype is no key of the predefined table, leaving
\* registry, active chunk and sink unchanged; when msgtype is a key, the absent
\* fields are taken from the table and the call does what it does when the
\* caller passes those values.
C5_SchemaRequired ==
  [][\A in \in AddInputs :
       (Open /\ addConnection(in) /\ (in.msgdef = Null \/ in.md5sum = Null))
         => IF in.msgtype \notin TableKeys
            THEN /\ result'.kind = "SchemaRequired"
                 /\ UNCHANGED <<connections, chunks, buffers, file, filePos>>
            ELSE addConnection(
                   [in EXCEPT
                      !.msgdef = IF @ = Null THEN PREDEFINED[in.msgtype].msgdef ELSE @,
                      !.md5sum = IF @ = Null THEN PREDEFINED[in.msgtype].md5sum ELSE @])
    ]_vars

\* C6: on an Open writer, write with a handle that this writer's addConnection
\* did not return (another writer's connection, or another object with the
\* fields of a registered one) fails with UnknownConnection and leaves the
\* active chunk (body, index, time bounds) and the sink unchanged.
C6_ForeignHandleRejected ==
  [][\A h \in Foreign, t \in Timestamps, d \in Payloads :
       (Open /\ write(h, t, d))
         => /\ result'.kind = "UnknownConnection"
            /\ UNCHANGED <<chunks, buffers, file, filePos>>]_vars

\* an Open writer whose chunk holds a message has just refused a write
C6_Witness ==
  /\ Open
  /\ NumMsgs = 1
  /\ result = [op |-> "write", kind |-> "UnknownConnection"]

\* C7: the BAGHEADER record and the padding record together span exactly 4096
\* bytes, as written by open() and as patched by close(), so the first byte
\* after them is at offset 4109.
C7_Envelope4096 ==
  /\ ~Fresh => /\ BufLen(Sink[2]) + BufLen(Sink[3]) = 4096
               /\ StartOf(Sink, 4) = 4109
  /\ Closed => /\ BufLen(Produced[2]) + BufLen(Produced[3]) = 4096
               /\ StartOf(Produced, 4) = 4109

\* C8: open() directly followed by close(), with no connection and no message,
\* gives conn_count = 0, chunk_count = 0 and index_pos = 4109, no CHUNK record
\* and no tail record (the bag ends at index_pos).
C8_EmptyBag ==
  (Closed /\ NumOpens = 1 /\ connections = <<>>)
    => /\ Field(Produced[2], "conn_count") = 0
       /\ Field(Produced[2], "chunk_count") = 0
       /\ Field(Produced[2], "index_pos") = 4109
       /\ NumRecords(Produced, CHUNK) = 0
       /\ SumLen(Produced) = Field(Produced[2], "index_pos")

\* C9: in a closed bag, index_pos is the position after the CHUNK and IDXDATA
\* records of the last flushed chunk (at least 4109), and from index_pos to the
\* end the bag holds conn_count CONNECTION records in ascending id order, then
\* chunk_count CHUNK_INFO records in flush order, and nothing else.
C9_Tail ==
  Closed =>
    LET bag == Produced
        indexPos == Field(bag[2], "index_pos")
        cc == Field(bag[2], "conn_count")
        kc == Field(bag[2], "chunk_count")
        first == IF indexPos = SumLen(bag) THEN Len(bag) + 1
                 ELSE CHOOSE i \in 1..Len(bag) :
                        /\ StartOf(bag, i) = indexPos
                        /\ \A j \in 1..(i - 1) : StartOf(bag, j) < indexPos
        tail == SubSeq(bag, first, Len(bag))
        positions == ChunkPositions(bag, 1)
    IN  /\ indexPos >= 4109
        /\ indexPos = AfterLastChunk(bag)
        /\ Len(tail) = 2 * cc + 3 * kc
        /\ \A i \in 1..cc :
             /\ IsRecord(tail[2 * i - 1], CONNECTION)
             /\ Field(tail[2 * i - 1], "conn") = i - 1
             /\ tail[2 * i].kind = "header" /\ tail[2 * i].op = <<>>
        /\ Len(positions) = kc
        /\ \A i \in 1..kc :
             /\ IsRecord(tail[2 * cc + 3 * i - 2], CHUNK_INFO)
             /\ Field(tail[2 * cc + 3 * i - 2], "chunk_pos") = positions[i]
             /\ tail[2 * cc + 3 * i - 1].kind = "u32"
             /\ tail[2 * cc + 3 * i].kind = "conninfo"

\* C10: in a closed bag, conn_count is the number of successful addConnection
\* calls, and chunk_count is the number of flushed chunks, which is the number
\* of CHUNK records and the number of CHUNK_INFO records of the bag.
C10_Counts ==
  Closed =>
    /\ Field(Produced[2], "conn_count") = Len(connections)
    /\ Field(Produced[2], "chunk_count") = NumFlushed(chunks)
    /\ NumRecords(Produced, CHUNK) = NumFlushed(chunks)
    /\ NumRecords(Produced, CHUNK_INFO) = NumFlushed(chunks)

\* C11: in a closed bag the record pair of every registered connection stands
\* once in a chunk body and once in the tail, whether or not the connection got
\* a message, and every written message stands once in a chunk body; with the
\* default threshold (never exceeded) and at least one connection the bag holds
\* one CHUNK record and one CHUNK_INFO record.
C11_RecordsOnce ==
  Closed =>
    LET bag == Produced
        parts == AllParts(bag, 1)
    IN  /\ \A j \in 1..Len(connections) :
             /\ Cardinality(PairPlaces(parts, connections[j])) = 1
             /\ Cardinality(PairPlaces(bag, connections[j])) = 1
        /\ Len(MsgsOf(parts, 1)) = NumMsgs
        /\ (chunkThreshold = 1048576 /\ connections # <<>>)
             => /\ NumRecords(bag, CHUNK) = 1
                /\ NumRecords(bag, CHUNK_INFO) = 1
C14_TimeBounds ==
  Closed =>
    LET bag == Produced
    IN  \A j \in 1..Len(bag) :
          IsRecord(bag[j], CHUNK_INFO)
            => LET p == Field(bag[j], "chunk_pos")
                   i == CHOOSE l \in 1..Len(bag) :
                          StartOf(bag, l) = p /\ IsRecord(bag[l], CHUNK)
                   ms == MsgsOf(BodyParts(bag[i + 2]), 1)
                   times == {ms[k].time : k \in 1..Len(ms)}
               IN  ms # <<>>
                     => /\ \A t \in times : TimeField(bag[j], "start_time") <= t
                        /\ TimeField(bag[j], "start_time") \in times
                        /\ \A t \in times : TimeField(bag[j], "end_time") >= t
                        /\ TimeField(bag[j], "end_time") \in times
\* C15: rotation is decided after appending.  A successful write appends its
\* whole message (header, length, payload) to the chunk that was active; it
\* flushes that chunk and installs a new empty one exactly when the size after
\* appending is greater than chunkThreshold, and otherwise leaves the sink
\* untouched; the flushed body holds the message whole; afterwards the active
\* chunk's size is at most chunkThreshold.
C15_Rotation ==
  [][(result'.op = "write" /\ result'.kind = "ok")
       => LET n == Len(chunks)
              before == chunks[n].dataParts
              after == chunks'[n].dataParts
              added == SubSeq(after, Len(before) + 1, Len(after))
              size == chunks[n].size + SumLen(added)
              rotated == /\ Len(chunks') = n + 1
                         /\ chunks'[n].pos = filePos
                         /\ chunks'[n + 1] = WriteChunk
                         /\ Len(Sink') > Len(Sink)
                         /\ IsRecord(Sink'[Len(Sink) + 1], CHUNK)
                         /\ BodyParts(Sink'[Len(Sink) + 3]) = after
          IN  /\ SubSeq(after, 1, Len(before)) = before
              /\ Len(added) = 3
              /\ IsRecord(added[1], MSGDATA)
              /\ added[2].kind = "u32" /\ added[3].kind = "data"
              /\ LEValue(added[2].b) = Len(added[3].b)
              /\ chunks'[n].size = size
              /\ rotated <=> size > chunkThreshold
              /\ ~rotated => /\ Sink' = Sink /\ filePos' = filePos
                             /\ Len(chunks') = n /\ chunks'[n].pos = -1
              /\ chunks'[Len(chunks')].size <= chunkThreshold]_vars

\* a write has just flushed a chunk that outgrew the threshold
C15_Witness ==
  /\ Open
  /\ result = [op |-> "write", kind |-> "ok"]
  /\ Len(chunks) = 2
  /\ chunks[1].pos # -1 /\ chunks[1].size > chunkThreshold
  /\ chunks[2] = WriteChunk
\* C16: open() on an Open writer is a no-op: it writes no byte to the sink and
\* leaves the sink position, the registry and the active chunk unchanged,
\* whatever addConnection and write calls came before.
C16_OpenIdempotent ==
  [][(Open /\ result'.op = "open")
       => UNCHANGED <<inMemory, fileExists, file, fd, opened, buffers, finalData,
                      filePos, compressionFormat, connections, chunkThreshold,
                      chunks>>]_vars

\* open() has just returned early on a writer that holds a connection and a
\* message
C16_Witness ==
  /\ Open
  /\ connections # <<>>
  /\ NumMsgs = 1
  /\ result = [op |-> "open", kind |-> "noop"]

\* C17: close() on a Closed writer is a no-op: it emits no chunk, connection,
\* CHUNK_INFO or header bytes and leaves the sink contents, the sink position
\* and the byte array getUint8Array returns unchanged.
C17_CloseIdempotent ==
  [][(Closed /\ result'.op = "close")
       => UNCHANGED <<inMemory, fileExists, file, fd, opened, buffers, finalData,
                      filePos, compressionFormat, connections, chunkThreshold,
                      chunks>>]_vars

\* close() has just returned early on a Closed writer whose bag holds a chunk
C17_Witness ==
  /\ Closed
  /\ NumFlushed(chunks) = 1
  /\ result = [op |-> "close", kind |-> "noop"]
\* C18: overwrite protection.  When a file exists at the path at construction
\* the constructor fails and the file stays as it is; when a file exists at the
\* path at open(), open() fails, the file stays as it is and the writer does
\* not become Open: a following addConnection fails with NotOpen.
C18_OverwriteProtection ==
  [][/\ (~inMemory /\ fileExists /\ result'.op = "constructor")
          => /\ result'.kind = "FileExists"
             /\ file' = file
             /\ fd' = "null"
             /\ ~Open'
     /\ (~inMemory /\ fileExists /\ fd = "null" /\ result'.op = "open")
          => /\ result'.kind = "FileExists"
             /\ file' = file
             /\ fd' = "null"
             /\ ~Open'
     /\ (result = [op |-> "open", kind |-> "FileExists"]
           /\ result'.op = "addConnection")
          => /\ result'.kind = "NotOpen"
             /\ file' = file]_vars

\* a file was created at the path after construction and open() has just
\* failed; the file is as the other program wrote it
C18_Witness ==
  /\ Fresh
  /\ fileExists
  /\ file = ForeignFile
  /\ result = [op |-> "open", kind |-> "FileExists"]
\* C19: getUint8Array returns bytes only for an in-memory writer that is Closed:
\* in file mode it fails with WrongMode, and for an in-memory writer that is
\* Fresh or Open it fails with NotClosed.
C19_GetBytes ==
  result.op = "getUint8Array"
    => result.kind = (IF ~inMemory THEN "WrongMode"
                      ELSE IF Closed THEN "ok" ELSE "NotClosed")
\* C20: the file descriptor is held only between open() and close() and is
\* released on every exit path: after close(), and after an addConnection or a
\* write that failed with an error, the writer holds no open file descriptor.
C20_Released ==
  (\/ result.op = "close"
   \/ (result.op \in {"addConnection", "write"} /\ result.kind # "ok"))
    => fd = "null"
\* C21: every error is fatal to the writer: once an addConnection or a write has
\* failed (NotOpen, SchemaRequired, DuplicateConnection, UnknownConnection), no
\* later addConnection or write on that writer succeeds; in particular the
\* call that comes right after the failed one does not.
C21_ErrorsFatal ==
  [][(result.op \in {"addConnection", "write"} /\ result.kind # "ok")
       => ~(result'.op \in {"addConnection", "write"} /\ result'.kind = "ok")]_vars
\* C22: compression is fixed at "none": setCompression fails with Unsupported
\* and changes nothing, compressionFormat is "none" in every state, and every
\* CHUNK header in the sink has compression = "none" and a size field and a
\* length prefix equal to the length of the body stored after it.
C22_CompressionNone ==
  [][/\ result'.op = "setCompression"
          => /\ result'.kind = "Unsupported"
             /\ UNCHANGED <<inMemory, fileExists, file, fd, opened, buffers, finalData,
                            filePos, compressionFormat, connections, chunkThreshold,
                            chunks>>
     /\ compressionFormat' = "none"
     /\ \A i \in 1..Len(Sink') :
          IsRecord(Sink'[i], CHUNK)
            => /\ TextField(Sink'[i], "compression") = "none"
               /\ Field(Sink'[i], "size") = BufLen(Sink'[i + 2])
               /\ LEValue(Sink'[i + 1].b) = BufLen(Sink'[i + 2])]_vars

\* two chunks are in the sink and a compression format has just been refused
C22_Witness ==
  /\ NumRecords(Sink, CHUNK) = 2
  /\ result = [op |-> "setCompression", kind |-> "Unsupported"]
\* C23: the back-patch of close() rewrites only the header envelope at offset
\* 13: the final BAGHEADER and padding are as long together as the ones open()
\* wrote, so the magic bytes, every chunk, index and tail byte and the end
\* position of the sink stay as they were written, in both modes.
C23_PatchInPlace ==
  [][(result'.op = "close" /\ result'.kind = "ok")
       => LET out == Produced'
          IN  /\ \A i \in 1..Len(out) : out[i].kind # "torn"
              /\ out[1] = MagicBuf
              /\ IsRecord(out[2], BAGHEADER)
              /\ out[3].kind = "pad"
              /\ BufLen(out[2]) + BufLen(out[3]) = BufLen(Sink[2]) + BufLen(Sink[3])
              /\ StartOf(out, 4) = StartOf(Sink, 4)
              /\ \A i \in 4..Len(Sink) : out[i] = Sink[i]
              /\ Len(out) = Len(Sink')
              /\ \A i \in 4..Len(out) : out[i] = Sink'[i]
              /\ SumLen(out) = filePos']_vars

\* close() has just patched the header of a bag that holds two chunks
C23_Witness ==
  /\ Closed
  /\ result = [op |-> "close", kind |-> "ok"]
  /\ NumRecords(Produced, CHUNK) = 2
  /\ Field(Produced[2], "chunk_count") = 2
\* C24: close() flushes the never-flushed active chunk exactly when its size
\* is greater than 0, also when it holds connection records only; an empty
\* active chunk is skipped, so no CHUNK record of size 0 is in the sink and
\* every CHUNK_INFO record close() writes is that of a flushed chunk.
C24_FlushNonEmpty ==
  [][(result'.op = "close" /\ result'.kind = "ok")
       => LET active == chunks[Len(chunks)]
              positions == ChunkPositions(Sink', 1)
          IN  /\ active.pos = -1
              /\ active.size > 0
                   => /\ NumRecords(Sink', CHUNK) = NumRecords(Sink, CHUNK) + 1
                      /\ positions[Len(positions)] = filePos
                      /\ chunks'[Len(chunks)].pos = filePos
              /\ active.size = 0
                   => /\ NumRecords(Sink', CHUNK) = NumRecords(Sink, CHUNK)
                      /\ chunks' = chunks
              /\ \A i \in 1..Len(Sink') : IsRecord(Sink'[i], CHUNK)
                   => Field(Sink'[i], "size") > 0
              /\ NumRecords(Sink', CHUNK_INFO) - NumRecords(Sink, CHUNK_INFO)
                   = NumFlushed(chunks')
              /\ \A i \in 1..Len(Sink') : IsRecord(Sink'[i], CHUNK_INFO)
                   => \E k \in 1..Len(positions) :
                        positions[k] = Field(Sink'[i], "chunk_pos")]_vars

\* close() has just flushed a chunk that holds connection records and no
\* message
C24_Witness ==
  /\ Closed
  /\ result = [op |-> "close", kind |-> "ok"]
  /\ connections # <<>>
  /\ NumMsgs = 0
  /\ NumRecords(Produced, CHUNK) = 1
\* the index of the CHUNK record of a bag that begins at byte position pos
ChunkAt(bufs, pos) ==
  CHOOSE i \in 1..Len(bufs) : IsRecord(bufs[i], CHUNK) /\ StartOf(bufs, i) = pos

\* the chunk body that follows the CHUNK record at index i holds no message
MessageLess(bufs, i) == MsgsOf(BodyParts(bufs[i + 2]), 1) = <<>>

C27_ChunkSize ==
  /\ \A i \in 1..Len(chunks) :
       /\ chunks[i].size = SumLen(chunks[i].dataParts)
       /\ ChunkOffset(chunks[i]) = SumLen(chunks[i].dataParts)
       /\ (chunks[i].pos # -1 /\ \E k \in 1..Len(Sink) :
              IsRecord(Sink[k], CHUNK) /\ StartOf(Sink, k) = chunks[i].pos)
            => LET k == ChunkAt(Sink, chunks[i].pos)
               IN  /\ Field(Sink[k], "size") = chunks[i].size
                   /\ Sink[k + 1] = U32Buf(chunks[i].size)
                   /\ BodyParts(Sink[k + 2]) = chunks[i].dataParts
  /\ \A k \in 1..Len(Sink) : IsRecord(Sink[k], CHUNK)
       => /\ Sink[k + 1].kind = "u32"
          /\ Field(Sink[k], "size") = LEValue(Sink[k + 1].b)
          /\ Field(Sink[k], "size") = BufLen(Sink[k + 2])
          /\ Field(Sink[k], "size") = SumLen(BodyParts(Sink[k + 2]))
          /\ \E i \in 1..Len(chunks) : chunks[i].pos = StartOf(Sink, k)

\* two chunks of different sizes are flushed, the first by a write()
C27_Witness ==
  /\ Len(chunks) = 3
  /\ NumRecords(Sink, CHUNK) = 2
  /\ chunks[2].size > 0
  /\ chunks[2].size < chunks[1].size
\* C28: a successful addConnection appends the two headers of the connection
\* to the active chunk and to nothing else: the sink and its position stay as
\* they are, no chunk is flushed or installed even when the active chunk is
\* then larger than chunkThreshold, and the index and the start and end times
\* of the chunk stay as they are.
C28_AddIntoChunk ==
  [][(result'.op = "addConnection" /\ result'.kind = "ok")
       => LET n == Len(chunks)
              old == chunks[n]
              new == chunks'[n]
              connection == connections'[Len(connections')]
              added == SubSeq(new.dataParts, Len(old.dataParts) + 1, Len(new.dataParts))
          IN  /\ Len(chunks') = n
              /\ \A i \in 1..(n - 1) : chunks'[i] = chunks[i]
              /\ Len(added) = 2
              /\ SubSeq(new.dataParts, 1, Len(old.dataParts)) = old.dataParts
              /\ IsRecord(added[1], CONNECTION)
              /\ Field(added[1], "conn") = connection.id
              /\ added[2].kind = "header" /\ added[2].op = <<>>
              /\ new.size = old.size + BufLen(added[1]) + BufLen(added[2])
              /\ new.pos = -1
              /\ new.connections = old.connections
              /\ new.start = old.start /\ new.end = old.end
              /\ Sink' = Sink
              /\ filePos' = filePos
              /\ UNCHANGED <<buffers, file, fd, finalData, opened>>]_vars

\* a connection has just been added to a chunk that is now larger than the
\* threshold
C28_Witness ==
  /\ Open
  /\ result = [op |-> "addConnection", kind |-> "ok"]
  /\ chunks[Len(chunks)].size > chunkThreshold
  /\ NumRecords(Sink, CHUNK) = 0
\* the (conn, count) pairs of the IDXDATA records that start at index i
RECURSIVE IdxOf(_, _)
IdxOf(bufs, i) ==
  IF i <= Len(bufs) /\ IsRecord(bufs[i], IDXDATA)
  THEN <<[cid |-> Field(bufs[i], "conn"), count |-> Field(bufs[i], "count")]>>
       \o IdxOf(bufs, i + 2 + Field(bufs[i], "count"))
  ELSE <<>>

\* the (conn, count) pairs of the data of a CHUNK_INFO record
ConnInfoOf(buf) ==
  [j \in 1..(Len(buf.b) \div 8) |->
     [cid |-> LEValue(SubSeq(buf.b, 8 * j - 7, 8 * j - 4)),
      count |-> LEValue(SubSeq(buf.b, 8 * j - 3, 8 * j))]]

RECURSIVE SumCounts(_)
SumCounts(pairs) == IF pairs = <<>> THEN 0 ELSE Head(pairs).count + SumCounts(Tail(pairs))

ConnRecords(parts, cid) ==
  {j \in 1..Len(parts) : IsRecord(parts[j], CONNECTION) /\ Field(parts[j], "conn") = cid}

\* C30: no MSGDATA record of a connection stands before the first CONNECTION
\* record of that connection: in the chunk that was active when the connection
\* was added the CONNECTION record comes before each of its messages, and the
\* chunks after it carry its messages without a CONNECTION record of it.
C30_ConnectionFirst ==
  LET parts == AllParts(Sink, 1) \o chunks[Len(chunks)].dataParts
  IN  /\ \A k \in 1..Len(parts) : IsRecord(parts[k], MSGDATA)
           => \E j \in 1..(k - 1) : j \in ConnRecords(parts, Field(parts[k], "conn"))
      /\ \A i \in 1..Len(connections) :
           Cardinality(ConnRecords(parts, connections[i].id)) = 1
      /\ \A k \in 1..Len(Sink) : IsRecord(Sink[k], CHUNK)
           => LET body == BodyParts(Sink[k + 2])
              IN  \A m \in 1..Len(body) : IsRecord(body[m], MSGDATA)
                    => LET cid == Field(body[m], "conn")
                       IN  \/ \E j \in 1..(m - 1) : j \in ConnRecords(body, cid)
                           \/ /\ ConnRecords(body, cid) = {}
                              /\ \E l \in 1..(k - 1) :
                                   /\ IsRecord(Sink[l], CHUNK)
                                   /\ ConnRecords(BodyParts(Sink[l + 2]), cid) # {}

\* the second chunk of a closed bag holds a message of a connection and no
\* CONNECTION record: the connection was added in the first chunk
C30_Witness ==
  /\ Closed
  /\ NumRecords(Produced, CHUNK) = 2
  /\ \E k \in 1..Len(Produced) :
       /\ IsRecord(Produced[k], CHUNK)
       /\ MsgsOf(BodyParts(Produced[k + 2]), 1) # <<>>
       /\ \A m \in 1..Len(BodyParts(Produced[k + 2])) :
            ~IsRecord(BodyParts(Produced[k + 2])[m], CONNECTION)
\* C31: the first write opens the bag if needed: a write() on a writer that
\* has not been opened leaves the writer open, with the magic bytes and the
\* preliminary header in the sink, instead of failing.
C31_ImplicitOpen ==
  [][(Fresh /\ result'.op = "write")
       => /\ opened' = "true"
          /\ result'.kind # "NotOpen"
          /\ Len(Sink') >= 3
          /\ Sink'[1] = MagicBuf
          /\ IsRecord(Sink'[2], BAGHEADER)]_vars
\* C32: the position counter filePos is the number of bytes appended to the
\* sink and never decreases; the back-patch of close() does not change it; the
\* pos of a flushed chunk is the counter at the moment its CHUNK header was
\* written and is at least the end of the header envelope; in in-memory mode
\* the array stored by close() is as long as the counter.
C32_Position ==
  [][/\ filePos' >= filePos
     /\ opened' = "undefined" => filePos' = 0
     /\ opened' # "undefined" => SumLen(Sink') = filePos'
     /\ \A i \in 1..Len(chunks') : chunks'[i].pos # -1
          => /\ chunks'[i].pos >= StartOf(Sink', 4)
             /\ chunks'[i].pos < filePos'
             /\ \E k \in 1..Len(Sink') :
                  IsRecord(Sink'[k], CHUNK) /\ StartOf(Sink', k) = chunks'[i].pos
             /\ (i > Len(chunks) \/ chunks[i].pos = -1) => chunks'[i].pos = filePos
             /\ (i <= Len(chunks) /\ chunks[i].pos # -1) => chunks'[i].pos = chunks[i].pos
     /\ (result'.op = "close" /\ result'.kind = "ok")
          => SumLen(Produced') = filePos'
     /\ (inMemory /\ opened' = "false") => SumLen(finalData'[1]) = filePos']_vars

\* an in-memory bag with two chunks is closed and the stored array is as long
\* as the position counter
C32_Witness ==
  /\ inMemory
  /\ Closed
  /\ NumFlushed(chunks) = 2
  /\ finalData # <<>>
  /\ SumLen(finalData[1]) = filePos
  /\ chunks[2].pos > chunks[1].pos
\* C33: close() on a writer that was never opened does nothing: no file is
\* created, no byte is written, no byte array is stored (getUint8Array still
\* fails with NotClosed) and the writer stays Fresh, so that a later open()
\* makes the usual transition from Fresh to Open.
C33_CloseFresh ==
  [][/\ (Fresh /\ result'.op = "close")
          => /\ result'.kind = "noop"
             /\ UNCHANGED <<inMemory, fileExists, file, fd, opened, buffers, finalData,
                            filePos, compressionFormat, connections, chunkThreshold,
                            chunks>>
     /\ (Fresh /\ result.op = "close")
          => /\ finalData = <<>> /\ buffers = <<>> /\ filePos = 0 /\ fd = "null"
             /\ ~fileExists => file = <<>>
             /\ (inMemory /\ result'.op = "getUint8Array") => result'.kind = "NotClosed"
             /\ (result'.op = "open" /\ (inMemory \/ ~fileExists))
                  => /\ result'.kind = "ok"
                     /\ opened' = "true"
                     /\ Sink' = OpenBufs
                     /\ filePos' = SumLen(OpenBufs)
                     /\ ~inMemory => fd' = "fd" /\ fileExists']_vars

\* close() has just returned on an in-memory writer that was never opened
C33_Witness ==
  /\ Fresh
  /\ inMemory
  /\ result = [op |-> "close", kind |-> "noop"]
  /\ buffers = <<>>
\* the fields of a serialized header in the order of its bytes: the op field
\* first, then the others
Emitted(buf) ==
  (IF buf.op # <<>> THEN <<[key |-> "op", val |-> Bytes(buf.op)]>> ELSE <<>>)
  \o buf.fields

\* the sum of 4 + L over fields, L the length of key, '=' and value
RECURSIVE SumFields(_)
SumFields(fs) ==
  IF fs = <<>> THEN 0
  ELSE 4 + Len(Head(fs).key) + 1 + Len(Head(fs).val.v) + SumFields(Tail(fs))

\* C34: serialize returns exactly 4 + D bytes, D the sum of 4 + L_i over the
\* emitted fields, the op field included; the op field comes first when an
\* opcode is given and the others follow in the order of their first
\* insertion; setting a key that is present replaces its value and neither
\* moves it nor adds a field.
C34_Serialize ==
  [][/\ (result'.op \in {"setUint32", "setUint64", "setString", "setTime"}
          /\ result'.kind = "ok")
          => LET name == hcall'.key
                 at(fs) == {i \in 1..Len(fs) : fs[i].key = name}
             IN  /\ Cardinality(at(hdr')) = 1
                 /\ IF at(hdr) # {}
                    THEN /\ Len(hdr') = Len(hdr)
                         /\ at(hdr') = at(hdr)
                         /\ \A i \in 1..Len(hdr) :
                              i \notin at(hdr) => hdr'[i] = hdr[i]
                    ELSE /\ Len(hdr') = Len(hdr) + 1
                         /\ at(hdr') = {Len(hdr')}
                         /\ SubSeq(hdr', 1, Len(hdr)) = hdr
     /\ result'.op = "serialize"
          => LET buf == hcall'.ret[1]
                 D == LEValue(buf.dlen)
                 given == hcall'.opcode # NoOpcode
                 em == Emitted(buf)
             IN  /\ Len(buf.dlen) = 4
                 /\ D = SumFields(em)
                 /\ BufLen(buf) = 4 + D
                 /\ Len(em) = Len(hdr) + (IF given THEN 1 ELSE 0)
                 /\ given => em[1] = [key |-> "op", val |-> Bytes(<<hcall'.opcode>>)]
                 /\ ~given => buf.op = <<>>
                 /\ SubSeq(em, Len(em) - Len(hdr) + 1, Len(em)) = hdr]_vars

\* a header of three fields has been serialized with an opcode
C34_Witness ==
  /\ result = [op |-> "serialize", kind |-> "ok"]
  /\ hcall.opcode = CONNECTION
  /\ Len(hdr) = 3
  /\ hdr[1].key = "topic" /\ hdr[1].val = Text("1")
  /\ hdr[3].key = "conn"
  /\ BufLen(hcall.ret[1]) = 4 + 8 + SumKeqv(hdr)
\* C35: for every integer timestamp t the time field that is emitted holds
\* sec = t div 10^9 and nsec = t mod 10^9 as unsigned 32-bit values, with
\* nsec < 10^9 and sec * 10^9 + nsec = t.
C35_TimeEncoding ==
  [][result'.op = "setTime"
       => /\ result'.kind = "ok"
          /\ LET t == hcall'.val.n
                 at == {i \in 1..Len(hdr') : hdr'[i].key = hcall'.key}
             IN  /\ at # {}
                 /\ \A i \in at :
                      LET b == hdr'[i].val.v
                          sec == LEValue(SubSeq(b, 1, 4))
                          nsec == LEValue(SubSeq(b, 5, 8))
                      IN  /\ Len(b) = 8
                          /\ \A k \in 1..8 : b[k] \in 0..255
                          /\ sec = t \div BILLION
                          /\ nsec = t % BILLION
                          /\ nsec < BILLION
                          /\ sec * BILLION + nsec = t]_vars
====
